---- MODULE Spec2Model ----
(***************************************************************************)
(* A model of sap_test/src/main.rs: the SAPODataService client (new and    *)
(* get_data) and the program entry point main.                             *)
(*                                                                         *)
(* Rust strings are modelled as sequences of bytes (their UTF-8 encoding,  *)
(* here always ASCII).  A response body is modelled as the sequence of its *)
(* JSON lexemes; whitespace between lexemes is not modelled.               *)
(***************************************************************************)
EXTENDS Integers, Sequences, FiniteSets, TLC

VARIABLES
    args,       \* the arguments SAPODataService::new was called with (history)
    client,     \* the SAPODataService value: service_url and headers
    panicked,   \* TRUE once an unwrap() has aborted the process
    server,     \* the remote end: what send() meets
    changes,    \* how many times the remote end has changed its behaviour
    calls,      \* the get_data calls made so far, with their results (history)
    requests,   \* the requests handed to send(), in order
    pc,         \* the position of main
    output      \* the lines main has printed

vars == <<args, client, panicked, server, changes, calls, requests, pc, output>>

----------------------------------------------------------------------------
(* Bounds of the model *)

\* longest username and longest password drawn for SAPODataService::new
MaxCredLen == 2
\* most get_data calls made on one client
MaxCalls == 2
\* most changes of the remote end's behaviour
MaxChanges == 1

----------------------------------------------------------------------------
(* String literals of the source, as bytes *)

\* "application/json"
AcceptLiteral == <<97, 112, 112, 108, 105, 99, 97, 116, 105, 111, 110, 47, 106, 115, 111, 110>>
\* "Basic "
BasicLiteral == <<66, 97, 115, 105, 99, 32>>
\* ":"
ColonLiteral == <<58>>
\* "/"
SlashLiteral == <<47>>
\* "https://your-sap-system-url/odata/service"
MainServiceUrl == <<104, 116, 116, 112, 115, 58, 47, 47, 121, 111, 117, 114, 45, 115, 97, 112, 45, 115, 121, 115, 116, 101, 109, 45, 117, 114, 108, 47, 111, 100, 97, 116, 97, 47, 115, 101, 114, 118, 105, 99, 101>>
\* "your_username"
MainUsername == <<121, 111, 117, 114, 95, 117, 115, 101, 114, 110, 97, 109, 101>>
\* "your_password"
MainPassword == <<121, 111, 117, 114, 95, 112, 97, 115, 115, 119, 111, 114, 100>>
\* "entity"
MainEndpoint == <<101, 110, 116, 105, 116, 121>>

----------------------------------------------------------------------------
(* base64::encode: the standard alphabet, padded *)

\* the character of the standard alphabet for a 6-bit value
Base64Char(i) ==
    IF i < 26 THEN 65 + i
    ELSE IF i < 52 THEN 97 + (i - 26)
    ELSE IF i < 62 THEN 48 + (i - 52)
    ELSE IF i = 62 THEN 43
    ELSE 47

\* "=", the padding character
Base64Pad == <<61>>

\* encode as a slip would have it: the alphabet is right, the padding is left out
RECURSIVE encodeUnpadded(_)
encodeUnpadded(bytes) ==
    IF Len(bytes) = 0 THEN <<>>
    ELSE IF Len(bytes) = 1 THEN
        << Base64Char(bytes[1] \div 4),
           Base64Char((bytes[1] % 4) * 16) >>
    ELSE IF Len(bytes) = 2 THEN
        << Base64Char(bytes[1] \div 4),
           Base64Char((bytes[1] % 4) * 16 + bytes[2] \div 16),
           Base64Char((bytes[2] % 16) * 4) >>
    ELSE
        << Base64Char(bytes[1] \div 4),
           Base64Char((bytes[1] % 4) * 16 + bytes[2] \div 16),
           Base64Char((bytes[2] % 16) * 4 + bytes[3] \div 64),
           Base64Char(bytes[3] % 64) >> \o encodeUnpadded(SubSeq(bytes, 4, Len(bytes)))

RECURSIVE encode(_)
encode(bytes) ==
    IF Len(bytes) = 0 THEN <<>>
    ELSE IF Len(bytes) = 1 THEN
        << Base64Char(bytes[1] \div 4),
           Base64Char((bytes[1] % 4) * 16) >> \o Base64Pad \o Base64Pad
    ELSE IF Len(bytes) = 2 THEN
        << Base64Char(bytes[1] \div 4),
           Base64Char((bytes[1] % 4) * 16 + bytes[2] \div 16),
           Base64Char((bytes[2] % 16) * 4) >> \o Base64Pad
    ELSE
        << Base64Char(bytes[1] \div 4),
           Base64Char((bytes[1] % 4) * 16 + bytes[2] \div 16),
           Base64Char((bytes[2] % 16) * 4 + bytes[3] \div 64),
           Base64Char(bytes[3] % 64) >> \o encode(SubSeq(bytes, 4, Len(bytes)))

----------------------------------------------------------------------------
(* str::parse::<HeaderValue>(): every byte must be header-field content *)

IsValidHeaderByte(b) == (b >= 32 /\ b # 127) \/ b = 9

ParseHeaderValue(s) ==
    IF \A i \in 1..Len(s) : IsValidHeaderByte(s[i])
    THEN [tag |-> "Ok", value |-> s]
    ELSE [tag |-> "Err"]

----------------------------------------------------------------------------
(* SAPODataService::new *)

NoClient == [tag |-> "None"]

\* the header value as a slip would have it: the credentials are not encoded
AuthorizationTextRaw(username, password) ==
    BasicLiteral \o username \o ColonLiteral \o password

\* the header value of line 18, before it is parsed
AuthorizationText(username, password) ==
    LET credentials == username \o ColonLiteral \o password
        encoded_credentials == encode(credentials)
    IN  BasicLiteral \o encoded_credentials

\* The value new returns, or Panic when one of its unwrap() calls aborts.
New(service_url, username, password) ==
    LET accept == ParseHeaderValue(AcceptLiteral)
        authorization == ParseHeaderValue(AuthorizationText(username, password))
    IN  IF accept.tag = "Err" \/ authorization.tag = "Err"
        THEN [tag |-> "Panic"]
        ELSE [tag |-> "Client",
              service_url |-> service_url,
              headers |-> [Accept |-> accept.value,
                           Authorization |-> authorization.value]]

\* A caller constructs the client from one of the argument triples of inputs.
ConstructFrom(inputs) ==
    /\ client.tag = "None"
    /\ ~panicked
    /\ \E a \in inputs :
          /\ args' = a
          /\ LET r == New(a.service_url, a.username, a.password)
             IN  IF r.tag = "Panic"
                 THEN panicked' = TRUE /\ client' = client
                 ELSE panicked' = panicked /\ client' = r
    /\ UNCHANGED <<server, changes, calls, requests, pc, output>>

----------------------------------------------------------------------------
(* serde_json: a body, as its lexemes, deserialized into                   *)
(* HashMap<String, serde_json::Value>                                      *)

\* the strings and the numbers that occur in the bodies of this model
StringAtoms == {"value", "other", "x"}
NumberAtoms == 1..3

\* the lexeme of a JSON string and of a JSON number
Quote(s) == "\"" \o s \o "\""
IsStringLexeme(t) == \E s \in StringAtoms : Quote(s) = t
Unquote(t) == CHOOSE s \in StringAtoms : Quote(s) = t
IsNumberLexeme(t) == \E n \in NumberAtoms : ToString(n) = t
NumberOf(t) == CHOOSE n \in NumberAtoms : ToString(n) = t

\* serde_json::Value
ValueNull == [t |-> "Null"]
ValueBool(b) == [t |-> "Bool", b |-> b]
ValueNumber(n) == [t |-> "Number", n |-> n]
ValueString(s) == [t |-> "String", s |-> s]
ValueArray(a) == [t |-> "Array", a |-> a]
ValueObject(o) == [t |-> "Object", o |-> o]

\* a map with no entry, and HashMap::insert (a later entry replaces an earlier)
EmptyMap == [k \in {} |-> ValueNull]
MapInsert(m, key, val) ==
    [k \in DOMAIN m \cup {key} |-> IF k = key THEN val ELSE m[k]]

ParseFail == [ok |-> FALSE]
Parsed(v, rest) == [ok |-> TRUE, value |-> v, rest |-> rest]

RECURSIVE ParseValue(_), ParseElements(_, _), ParseMembers(_, _)

\* one JSON value at the head of toks
ParseValue(toks) ==
    IF toks = <<>> THEN ParseFail
    ELSE LET t == Head(toks)
             rest == Tail(toks)
         IN  IF t = "null" THEN Parsed(ValueNull, rest)
             ELSE IF t = "true" THEN Parsed(ValueBool(TRUE), rest)
             ELSE IF t = "false" THEN Parsed(ValueBool(FALSE), rest)
             ELSE IF IsNumberLexeme(t) THEN Parsed(ValueNumber(NumberOf(t)), rest)
             ELSE IF IsStringLexeme(t) THEN Parsed(ValueString(Unquote(t)), rest)
             ELSE IF t = "[" THEN
                 IF rest # <<>> /\ Head(rest) = "]"
                 THEN Parsed(ValueArray(<<>>), Tail(rest))
                 ELSE ParseElements(rest, <<>>)
             ELSE IF t = "{" THEN
                 IF rest # <<>> /\ Head(rest) = "}"
                 THEN Parsed(ValueObject(EmptyMap), Tail(rest))
                 ELSE ParseMembers(rest, EmptyMap)
             ELSE ParseFail

\* the elements of an array after "[" or ",": a value, then "," or "]"
ParseElements(toks, acc) ==
    LET v == ParseValue(toks)
    IN  IF ~v.ok \/ v.rest = <<>> THEN ParseFail
        ELSE IF Head(v.rest) = ","
             THEN ParseElements(Tail(v.rest), Append(acc, v.value))
        ELSE IF Head(v.rest) = "]"
             THEN Parsed(ValueArray(Append(acc, v.value)), Tail(v.rest))
        ELSE ParseFail

\* the members of an object after "{" or ",": a string, ":", a value, then
\* "," or "}"
ParseMembers(toks, acc) ==
    IF Len(toks) < 2 \/ ~IsStringLexeme(toks[1]) \/ toks[2] # ":" THEN ParseFail
    ELSE LET v == ParseValue(SubSeq(toks, 3, Len(toks)))
         IN  IF ~v.ok \/ v.rest = <<>> THEN ParseFail
             ELSE IF Head(v.rest) = ","
                  THEN ParseMembers(Tail(v.rest), MapInsert(acc, Unquote(toks[1]), v.value))
             ELSE IF Head(v.rest) = "}"
                  THEN Parsed(ValueObject(MapInsert(acc, Unquote(toks[1]), v.value)),
                              Tail(v.rest))
             ELSE ParseFail

\* from_slice as a slip would have it: what follows the object is not looked at
FromSliceNoEnd(body) ==
    IF body = <<>> \/ Head(body) # "{" THEN ParseFail
    ELSE ParseValue(body)

\* serde_json::from_slice::<HashMap<String, Value>>: the body must be one
\* object and nothing after it
FromSlice(body) ==
    IF body = <<>> \/ Head(body) # "{" THEN ParseFail
    ELSE LET v == ParseValue(body)
         IN  IF v.ok /\ v.rest = <<>> THEN v ELSE ParseFail

----------------------------------------------------------------------------
(* The remote end *)

\* the remote end cannot be reached: send() returns an error
ServerDown == [up |-> FALSE]

\* the body the remote end gives for a target that is not its resource
NotFoundBody == <<"Not", "Found">>

\* What send() returns for a request: an error of kind Request when the remote
\* end cannot be reached, and otherwise the response, whatever its status.
Send(srv, request) ==
    IF ~srv.up THEN [tag |-> "Err", kind |-> "Request"]
    ELSE IF request.url = srv.resource
         THEN [tag |-> "Ok", status |-> srv.status, body |-> srv.body]
         ELSE [tag |-> "Ok", status |-> 404, body |-> NotFoundBody]

\* json as a slip would have it: only the "value" entry of the object is kept
JsonValueOnly(response) ==
    LET v == FromSlice(response.body)
    IN  IF v.ok
        THEN [tag |-> "Ok",
              data |-> [k \in DOMAIN v.value.o \cap {"value"} |-> v.value.o[k]]]
        ELSE [tag |-> "Err", kind |-> "Decode"]

\* json as a slip would have it: error_for_status() comes first
JsonErrorForStatus(response) ==
    LET v == FromSlice(response.body)
    IN  IF response.status >= 400 THEN [tag |-> "Err", kind |-> "Status"]
        ELSE IF v.ok THEN [tag |-> "Ok", data |-> v.value.o]
        ELSE [tag |-> "Err", kind |-> "Decode"]

\* Response::json: an error of kind Decode unless the body deserializes
Json(response) ==
    LET v == FromSlice(response.body)
    IN  IF v.ok THEN [tag |-> "Ok", data |-> v.value.o]
        ELSE [tag |-> "Err", kind |-> "Decode"]

----------------------------------------------------------------------------
(* SAPODataService::get_data *)

\* the target as a slip would have it: a slash the base URL ends in is dropped
FormatUrlNormalized(service_url, endpoint) ==
    IF service_url # <<>> /\ service_url[Len(service_url)] = 47
    THEN service_url \o endpoint
    ELSE service_url \o SlashLiteral \o endpoint

\* format!("{}/{}", &self.service_url, endpoint)
FormatUrl(service_url, endpoint) == service_url \o SlashLiteral \o endpoint

\* get_data as a slip would have it: the client keeps the target as its base URL
DoGetDataStateful(endpoint) ==
    /\ client.tag = "Client"
    /\ ~panicked
    /\ Len(calls) < MaxCalls
    /\ LET url == client.service_url \o SlashLiteral \o endpoint
           request == [method |-> "GET", url |-> url, headers |-> client.headers]
           response == Send(server, request)
           result == IF response.tag = "Err" THEN response ELSE Json(response)
       IN  /\ requests' = Append(requests, request)
           /\ calls' = Append(calls, [endpoint |-> endpoint,
                                      epoch |-> changes,
                                      response |-> response,
                                      result |-> result])
           /\ client' = [client EXCEPT !.service_url = url]
    /\ UNCHANGED <<args, panicked, server, changes, output>>

\* get_data as a slip would have it: a request that send() fails is sent again
DoGetDataRetry(endpoint) ==
    /\ client.tag = "Client"
    /\ ~panicked
    /\ Len(calls) < MaxCalls
    /\ LET url == client.service_url \o SlashLiteral \o endpoint
           request == [method |-> "GET", url |-> url, headers |-> client.headers]
           response == Send(server, request)
           result == IF response.tag = "Err" THEN response ELSE Json(response)
       IN  /\ requests' = IF response.tag = "Err"
                          THEN requests \o <<request, request>>
                          ELSE Append(requests, request)
           /\ calls' = Append(calls, [endpoint |-> endpoint,
                                      epoch |-> changes,
                                      response |-> response,
                                      result |-> result])
    /\ UNCHANGED <<args, client, panicked, server, changes, output>>

\* The whole of get_data: one request built and sent, the response's body
\* deserialized; "?" returns the error of send() or of json().
DoGetData(endpoint) ==
    /\ client.tag = "Client"
    /\ ~panicked
    /\ Len(calls) < MaxCalls
    /\ LET url == FormatUrl(client.service_url, endpoint)
           request == [method |-> "GET", url |-> url, headers |-> client.headers]
           response == Send(server, request)
           result == IF response.tag = "Err" THEN response ELSE Json(response)
       IN  /\ requests' = Append(requests, request)
           /\ calls' = Append(calls, [endpoint |-> endpoint,
                                      epoch |-> changes,
                                      response |-> response,
                                      result |-> result])
    /\ UNCHANGED <<args, client, panicked, server, changes, output>>

----------------------------------------------------------------------------
(* Inputs of new *)

RECURSIVE StringsUpTo(_, _)
StringsUpTo(alphabet, n) ==
    IF n = 0 THEN {<<>>}
    ELSE LET shorter == StringsUpTo(alphabet, n - 1)
         IN  shorter \cup {Append(s, b) : s \in shorter, b \in alphabet}

\* TAB, LF, CR, ":", "?", "a", "~", DEL: header-safe bytes and bytes that are not
CredBytes == {9, 10, 13, 58, 63, 97, 126, 127}

\* "admin" and "secret"
AdminLiteral == <<97, 100, 109, 105, 110>>
SecretLiteral == <<115, 101, 99, 114, 101, 116>>

\* "h" and "h/"
ShortUrl == <<104>>
ShortUrlSlash == <<104, 47>>

NewInputs ==
    [service_url : {ShortUrl},
     username : StringsUpTo(CredBytes, MaxCredLen) \cup {AdminLiteral},
     password : StringsUpTo(CredBytes, MaxCredLen) \cup {SecretLiteral}]

NoArgs == [service_url |-> <<>>, username |-> <<>>, password |-> <<>>]

InitNew ==
    /\ args = NoArgs
    /\ client = NoClient
    /\ panicked = FALSE
    /\ server = ServerDown
    /\ changes = 0
    /\ calls = <<>>
    /\ requests = <<>>
    /\ pc = "none"
    /\ output = <<>>

NextNew == ConstructFrom(NewInputs)

SpecNew == InitNew /\ [][NextNew]_vars

----------------------------------------------------------------------------
(* The bodies the remote end may send *)

\* a JSON document as the remote end holds it; an object is the list of its
\* members as its text writes them, so a key may occur twice
DocNull == [d |-> "null"]
DocBool(b) == [d |-> "bool", b |-> b]
DocNumber(n) == [d |-> "number", n |-> n]
DocString(s) == [d |-> "string", s |-> s]
DocArray(items) == [d |-> "array", items |-> items]
DocObject(members) == [d |-> "object", members |-> members]
Member(key, doc) == [key |-> key, doc |-> doc]

RECURSIVE Serialize(_), SerializeItems(_), SerializeMembers(_)

\* the text of a document, as lexemes
Serialize(doc) ==
    CASE doc.d = "null" -> <<"null">>
      [] doc.d = "bool" -> IF doc.b THEN <<"true">> ELSE <<"false">>
      [] doc.d = "number" -> <<ToString(doc.n)>>
      [] doc.d = "string" -> <<Quote(doc.s)>>
      [] doc.d = "array" -> <<"[">> \o SerializeItems(doc.items) \o <<"]">>
      [] doc.d = "object" -> <<"{">> \o SerializeMembers(doc.members) \o <<"}">>

SerializeItems(items) ==
    IF items = <<>> THEN <<>>
    ELSE IF Len(items) = 1 THEN Serialize(items[1])
    ELSE Serialize(items[1]) \o <<",">> \o SerializeItems(Tail(items))

SerializeMembers(members) ==
    IF members = <<>> THEN <<>>
    ELSE LET first == <<Quote(members[1].key), ":">> \o Serialize(members[1].doc)
         IN  IF Len(members) = 1 THEN first
             ELSE first \o <<",">> \o SerializeMembers(Tail(members))

\* [1,2,3]
DocOneTwoThree == DocArray(<<DocNumber(1), DocNumber(2), DocNumber(3)>>)

\* {"value":[1,2,3],"other":"x"}, {"other":"x"} and {}: the bodies of the
\* specification's examples
DocValueOther ==
    DocObject(<<Member("value", DocOneTwoThree), Member("other", DocString("x"))>>)
DocOther == DocObject(<<Member("other", DocString("x"))>>)
DocEmpty == DocObject(<<>>)

ObjectDocs ==
    { DocValueOther, DocOther, DocEmpty,
      DocObject(<<Member("value", DocNull)>>),
      DocObject(<<Member("value", DocArray(<<>>)), Member("x", DocBool(TRUE))>>),
      DocObject(<<Member("value", DocNumber(1)), Member("value", DocString("x"))>>),
      DocObject(<<Member("other", DocObject(<<Member("value", DocNumber(2))>>))>>),
      DocObject(<<Member("other", DocObject(<<Member("x", DocNumber(1)),
                                              Member("x", DocBool(FALSE))>>))>>) }

\* documents that are JSON and no object
OtherDocs == { DocOneTwoThree, DocString("x"), DocNumber(1), DocNull,
               DocArray(<<DocOther>>) }

\* bodies that are not JSON: an empty body, plain text, a truncated object, an
\* object followed by more text, a missing colon, a trailing comma, a key that
\* is no string, an array with a trailing comma
MalformedBodies ==
    { <<>>,
      NotFoundBody,
      <<"{", "\"other\"", ":", "\"x\"">>,
      <<"{", "\"other\"", ":", "\"x\"", "}", "}">>,
      <<"{", "\"other\"", "\"x\"", "}">>,
      <<"{", "\"other\"", ":", "\"x\"", ",", "}">>,
      <<"{", "1", ":", "1", "}">>,
      <<"{", "\"value\"", ":", "[", "1", ",", "]", "}">>,
      <<"{", "\"value\"", ":", "}">> }

Bodies == {Serialize(d) : d \in ObjectDocs \cup OtherDocs} \cup MalformedBodies

\* a few bodies of each sort, for the runs of several calls
FewBodies ==
    {Serialize(d) : d \in {DocValueOther, DocOther, DocEmpty, DocOneTwoThree}}
        \cup {NotFoundBody, <<"{", "\"other\"", ":", "\"x\"">>}

Statuses == {200, 401, 500}

ServersOf(resources, statuses, bodies) ==
    [up : {TRUE}, resource : resources, status : statuses, body : bodies]
        \cup {ServerDown}

----------------------------------------------------------------------------
(* A caller that constructs one client and calls get_data on it *)

\* "e", "/e" and ""
EndpointE == <<101>>
EndpointSlashE == <<47, 101>>
Endpoints == {EndpointE, EndpointSlashE, <<>>}

ClientInputs ==
    [service_url : {ShortUrl, ShortUrlSlash},
     username : {AdminLiteral},
     password : {SecretLiteral}]

\* "h/e", the target the remote end serves
ShortResource == <<104, 47, 101>>

ClientServers == ServersOf({ShortResource}, Statuses, FewBodies)

Construct == ConstructFrom(ClientInputs)

GetData == \E endpoint \in Endpoints : DoGetData(endpoint) /\ UNCHANGED pc

\* The remote end changes its behaviour.
ServerChange ==
    /\ changes < MaxChanges
    /\ server' \in ClientServers \ {server}
    /\ changes' = changes + 1
    /\ UNCHANGED <<args, client, panicked, calls, requests, pc, output>>

Init ==
    /\ args = NoArgs
    /\ client = NoClient
    /\ panicked = FALSE
    /\ server \in ClientServers
    /\ changes = 0
    /\ calls = <<>>
    /\ requests = <<>>
    /\ pc = "none"
    /\ output = <<>>

Next == Construct \/ GetData \/ ServerChange

Spec == Init /\ [][Next]_vars

----------------------------------------------------------------------------
(* main *)

\* "https://your-sap-system-url/odata/service/entity"
MainResource == <<104, 116, 116, 112, 115, 58, 47, 47, 121, 111, 117, 114, 45, 115, 97, 112, 45, 115, 121, 115, 116, 101, 109, 45, 117, 114, 108, 47, 111, 100, 97, 116, 97, 47, 115, 101, 114, 118, 105, 99, 101, 47, 101, 110, 116, 105, 116, 121>>

\* the remote end serves the target of main, or only the service root
MainServers == ServersOf({MainResource, MainServiceUrl}, Statuses, Bodies)

\* line 40
MainNew ==
    /\ pc = "new"
    /\ LET r == New(MainServiceUrl, MainUsername, MainPassword)
       IN  IF r.tag = "Panic"
           THEN panicked' = TRUE /\ client' = client /\ pc' = "aborted"
           ELSE panicked' = panicked /\ client' = r /\ pc' = "get_data"
    /\ args' = [service_url |-> MainServiceUrl,
                username |-> MainUsername,
                password |-> MainPassword]
    /\ UNCHANGED <<server, changes, calls, requests, output>>

\* line 41, the call
MainGetData ==
    /\ pc = "get_data"
    /\ DoGetData(MainEndpoint)
    /\ pc' = "match"

\* println!("{:?}", values) and println!("Error: {:?}", e)
PrintValue(values) == [stream |-> "stdout", format |-> "{:?}", arg |-> values]
PrintError(e) == [stream |-> "stdout", format |-> "Error: {:?}", arg |-> e]

\* the match as a slip would have it: a missing "value" is printed as null
MatchOutputNull(result) ==
    IF result.tag = "Ok"
    THEN IF "value" \in DOMAIN result.data
         THEN <<PrintValue(result.data["value"])>>
         ELSE <<PrintValue(ValueNull)>>
    ELSE <<PrintError(result)>>

\* what the match of lines 41-48 prints for a result of get_data
MatchOutput(result) ==
    IF result.tag = "Ok"
    THEN IF "value" \in DOMAIN result.data
         THEN <<PrintValue(result.data["value"])>>
         ELSE <<>>
    ELSE <<PrintError(result)>>

\* the match as a slip would have it: the result of get_data is unwrapped
MainMatchUnwrap ==
    /\ pc = "match"
    /\ LET result == calls[Len(calls)].result
       IN  IF result.tag = "Err"
           THEN panicked' = TRUE /\ pc' = "aborted" /\ output' = output
           ELSE panicked' = panicked /\ pc' = "done"
                /\ output' = output \o MatchOutput(result)
    /\ UNCHANGED <<args, client, server, changes, calls, requests>>

\* lines 41-48, the match, and the return from main
MainMatch ==
    /\ pc = "match"
    /\ output' = output \o MatchOutput(calls[Len(calls)].result)
    /\ pc' = "done"
    /\ UNCHANGED <<args, client, panicked, server, changes, calls, requests>>

InitMain ==
    /\ args = NoArgs
    /\ client = NoClient
    /\ panicked = FALSE
    /\ server \in MainServers
    /\ changes = 0
    /\ calls = <<>>
    /\ requests = <<>>
    /\ pc = "new"
    /\ output = <<>>

NextMain == MainNew \/ MainGetData \/ MainMatch

SpecMain == InitMain /\ [][NextMain]_vars

----------------------------------------------------------------------------
(* Properties of SAPODataService::new, checked under SpecNew *)

\* new has been called and has returned or has aborted the process
Constructed == client.tag = "Client" \/ panicked

\* header-safe ASCII: the printable characters, the space and the tab
IsHeaderSafe(s) == \A i \in 1..Len(s) : s[i] \in (32..126) \cup {9}

\* "ABCDEFGHIJKLMNOPQRSTUVWXYZabcdefghijklmnopqrstuvwxyz0123456789+/"
StandardAlphabet == <<65, 66, 67, 68, 69, 70, 71, 72, 73, 74, 75, 76, 77, 78, 79, 80, 81, 82, 83, 84, 85, 86, 87, 88, 89, 90, 97, 98, 99, 100, 101, 102, 103, 104, 105, 106, 107, 108, 109, 110, 111, 112, 113, 114, 115, 116, 117, 118, 119, 120, 121, 122, 48, 49, 50, 51, 52, 53, 54, 55, 56, 57, 43, 47>>

InAlphabet(c) == \E i \in 1..64 : StandardAlphabet[i] = c
SextetOf(c) == (CHOOSE i \in 1..64 : StandardAlphabet[i] = c) - 1

\* the bytes a group of four characters stands for; "=" is 61
DecodeGroup(g) ==
    LET a == SextetOf(g[1])
        b == SextetOf(g[2])
    IN  IF g[3] = 61 THEN << a * 4 + b \div 16 >>
        ELSE LET c == SextetOf(g[3])
             IN  IF g[4] = 61
                 THEN << a * 4 + b \div 16, (b % 16) * 16 + c \div 4 >>
                 ELSE << a * 4 + b \div 16, (b % 16) * 16 + c \div 4,
                         (c % 4) * 64 + SextetOf(g[4]) >>

RECURSIVE DecodeGroups(_)
DecodeGroups(text) ==
    IF text = <<>> THEN <<>>
    ELSE DecodeGroup(SubSeq(text, 1, 4)) \o DecodeGroups(SubSeq(text, 5, Len(text)))

\* text is the standard padded base64 encoding of bytes: whole groups of four,
\* characters of the standard alphabet, "=" only to fill the last group, no
\* stray bits, and the bytes it stands for are bytes
IsPaddedBase64Of(text, bytes) ==
    LET n == Len(bytes)
        pad == (3 - (n % 3)) % 3
    IN  /\ Len(text) = 4 * ((n + 2) \div 3)
        /\ \A i \in 1..Len(text) :
              IF i > Len(text) - pad THEN text[i] = 61 ELSE InAlphabet(text[i])
        /\ pad = 2 => SextetOf(text[Len(text) - 2]) % 16 = 0
        /\ pad = 1 => SextetOf(text[Len(text) - 1]) % 4 = 0
        /\ DecodeGroups(text) = bytes

\* "Basic YWRtaW46c2VjcmV0"
AdminSecretHeader == <<66, 97, 115, 105, 99, 32, 89, 87, 82, 116, 97, 87, 52, 54, 99, 50, 86, 106, 99, 109, 86, 48>>

\* C1: when new is called with a username and a password of header-safe ASCII
\* it does not fail, and the Authorization header of the client it returns is
\* "Basic " followed by the standard padded base64 encoding of
\* username ":" password; admin and secret give "Basic YWRtaW46c2VjcmV0".
C1_AuthorizationHeader ==
    (Constructed /\ IsHeaderSafe(args.username) /\ IsHeaderSafe(args.password)) =>
        /\ ~panicked
        /\ client.tag = "Client"
        /\ LET h == client.headers.Authorization
           IN  /\ Len(h) >= 6
               /\ SubSeq(h, 1, 6) = <<66, 97, 115, 105, 99, 32>>
               /\ IsPaddedBase64Of(SubSeq(h, 7, Len(h)),
                                   args.username \o <<58>> \o args.password)
               /\ (args.username = AdminLiteral /\ args.password = SecretLiteral)
                      => h = AdminSecretHeader

\* new was called with admin and secret and returned a client
C1_Witness ==
    /\ client.tag = "Client"
    /\ args.username = AdminLiteral
    /\ args.password = SecretLiteral
    /\ client.headers.Authorization = AdminSecretHeader

\* C9, as the specification states it: when the username or the password has a
\* character that is no header text, the construction aborts the process.
C9_UnsafeCredentialsPanic ==
    (Constructed /\ ~(IsHeaderSafe(args.username) /\ IsHeaderSafe(args.password)))
        => panicked

\* C9, amended: when the username or the password has a character that is no
\* header text (CR, LF, DEL), new still returns a client and nothing aborts:
\* the text that is parsed as the header value is the base64 encoding of the
\* credentials, and every byte of it is header-field content.
C9_UnsafeCredentialsAccepted ==
    (Constructed /\ ~(IsHeaderSafe(args.username) /\ IsHeaderSafe(args.password))) =>
        /\ ~panicked
        /\ client.tag = "Client"
        /\ IsHeaderSafe(client.headers.Authorization)

\* new was called with a username that holds a CR and a password that holds a
\* LF, and returned a client
C9_Witness ==
    /\ client.tag = "Client"
    /\ \E i \in 1..Len(args.username) : args.username[i] = 13
    /\ \E i \in 1..Len(args.password) : args.password[i] = 10

----------------------------------------------------------------------------
(* Properties of get_data, checked under Spec and SpecMain *)

\* C2: the target of every request get_data sends is the base URL the client
\* was constructed with, one "/", and the endpoint, byte for byte, also when
\* the base URL ends in "/" or the endpoint begins with "/".
C2_RequestTarget ==
    \A i \in 1..Len(calls) :
        LET url == requests[i].url
            base == args.service_url
            endpoint == calls[i].endpoint
        IN  /\ i <= Len(requests)
            /\ Len(url) = Len(base) + 1 + Len(endpoint)
            /\ SubSeq(url, 1, Len(base)) = base
            /\ url[Len(base) + 1] = 47
            /\ SubSeq(url, Len(base) + 2, Len(url)) = endpoint

\* get_data("/e") on a client of base URL "h/" has sent a request for "h///e"
C2_Witness ==
    \E i \in 1..Len(calls) :
        /\ args.service_url = <<104, 47>>
        /\ calls[i].endpoint = <<47, 101>>
        /\ requests[i].url = <<104, 47, 47, 47, 101>>

\* the keys of an object's members, and the last member with a key
KeysOf(members) == {members[i].key : i \in 1..Len(members)}
LastWith(members, key) ==
    members[CHOOSE i \in 1..Len(members) :
               /\ members[i].key = key
               /\ \A j \in (i + 1)..Len(members) : members[j].key # key]

\* the value a document stands for; of two members with one key the later
\* one counts
RECURSIVE ValueOf(_)
ValueOf(doc) ==
    CASE doc.d = "null" -> [t |-> "Null"]
      [] doc.d = "bool" -> [t |-> "Bool", b |-> doc.b]
      [] doc.d = "number" -> [t |-> "Number", n |-> doc.n]
      [] doc.d = "string" -> [t |-> "String", s |-> doc.s]
      [] doc.d = "array" ->
            [t |-> "Array", a |-> [i \in 1..Len(doc.items) |-> ValueOf(doc.items[i])]]
      [] doc.d = "object" ->
            [t |-> "Object",
             o |-> [k \in KeysOf(doc.members) |-> ValueOf(LastWith(doc.members, k).doc)]]

\* C3: when the body of the response is a JSON object, get_data returns Ok
\* with a mapping that has exactly the keys of the object, each with the value
\* the body gives it (the later one when the body gives a key twice).
C3_ObjectReturnedWhole ==
    \A i \in 1..Len(calls) : \A doc \in ObjectDocs :
        (calls[i].response.tag = "Ok" /\ calls[i].response.body = Serialize(doc)) =>
            /\ calls[i].result.tag = "Ok"
            /\ DOMAIN calls[i].result.data = KeysOf(doc.members)
            /\ \A k \in KeysOf(doc.members) :
                  calls[i].result.data[k] = ValueOf(LastWith(doc.members, k).doc)

\* the body was {"value":[1,2,3],"other":"x"} with status 200 and get_data
\* returned both keys
C3_Witness ==
    /\ Len(calls) = 1
    /\ calls[1].response.tag = "Ok"
    /\ calls[1].response.status = 200
    /\ calls[1].response.body = Serialize(DocValueOther)
    /\ calls[1].result.tag = "Ok"
    /\ DOMAIN calls[1].result.data = {"value", "other"}
    /\ calls[1].result.data["other"] = [t |-> "String", s |-> "x"]

\* C4: the status of a response has no part in the outcome: a call fails only
\* when send() failed or the body did not deserialize, and two responses with
\* one body give one result whatever their statuses.
C4_StatusIgnored ==
    /\ \A i \in 1..Len(calls) :
          IF calls[i].response.tag = "Ok"
          THEN calls[i].result.tag = "Ok" \/ calls[i].result.kind = "Decode"
          ELSE calls[i].result.tag = "Err" /\ calls[i].result.kind = "Request"
    /\ \A i, j \in 1..Len(calls) :
          (/\ calls[i].response.tag = "Ok"
           /\ calls[j].response.tag = "Ok"
           /\ calls[i].response.body = calls[j].response.body)
              => calls[i].result = calls[j].result

\* the same object came with status 200 and then with status 500, and both
\* calls returned it
C4_Witness ==
    /\ Len(calls) >= 2
    /\ calls[1].response.tag = "Ok" /\ calls[1].response.status = 200
    /\ calls[2].response.tag = "Ok" /\ calls[2].response.status = 500
    /\ calls[1].response.body = calls[2].response.body
    /\ calls[1].result.tag = "Ok"
    /\ calls[2].result = calls[1].result

\* C5: when a response comes whose body is no JSON or no object, get_data
\* returns an error of the kind of a body that does not decode, which is not
\* the kind of a request that failed, and no mapping.
C5_MalformedBodyIsDecodeError ==
    \A i \in 1..Len(calls) :
        /\ (/\ calls[i].response.tag = "Ok"
            /\ calls[i].response.body \in
                   MalformedBodies \cup {Serialize(d) : d \in OtherDocs})
              => /\ calls[i].result.tag = "Err"
                 /\ calls[i].result.kind = "Decode"
                 /\ "data" \notin DOMAIN calls[i].result
        /\ calls[i].response.tag = "Err"
              => /\ calls[i].result.tag = "Err"
                 /\ calls[i].result.kind # "Decode"

\* the body was the text Not Found with status 200 and get_data returned a
\* decode error
C5_Witness ==
    /\ Len(calls) = 1
    /\ calls[1].response.tag = "Ok"
    /\ calls[1].response.status = 200
    /\ calls[1].response.body = <<"Not", "Found">>
    /\ calls[1].result = [tag |-> "Err", kind |-> "Decode"]

\* C8: two get_data calls on the client with one endpoint, between which the
\* remote end has not changed, send the same request and return equal results.
C8_Idempotent ==
    \A i, j \in 1..Len(calls) :
        (calls[i].endpoint = calls[j].endpoint /\ calls[i].epoch = calls[j].epoch)
            => /\ calls[i].result = calls[j].result
               /\ requests[i] = requests[j]

\* two calls with one endpoint met the same remote end and both returned the
\* object it serves
C8_Witness ==
    /\ Len(calls) >= 2
    /\ calls[1].endpoint = calls[2].endpoint
    /\ calls[1].epoch = calls[2].epoch
    /\ calls[1].result.tag = "Ok"
    /\ calls[2].result = calls[1].result

\* C10: the construction sends no request and every get_data call sends one
\* GET request, whatever it or the calls before it returned: the requests sent
\* are as many as the calls made.
C10_OneRequestPerCall ==
    /\ Len(requests) = Len(calls)
    /\ \A i \in 1..Len(requests) : requests[i].method = "GET"
    /\ client.tag = "None" => requests = <<>>

\* a call failed in send(), a second call was made, and two requests were sent
C10_Witness ==
    /\ Len(calls) = 2
    /\ calls[1].result.tag = "Err"
    /\ calls[1].response.tag = "Err"
    /\ calls[2].endpoint = calls[1].endpoint
    /\ Len(requests) = 2

----------------------------------------------------------------------------
(* Properties of main, checked under SpecMain *)

\* the lines of the output that print a value
ValueLines == {i \in 1..Len(output) : output[i].format = "{:?}"}

\* C6: main prints the value of "value" exactly when get_data returned Ok and
\* the mapping has the key "value"; when get_data returned Ok and the key is
\* absent main prints nothing and reports no error.
C6_PrintsValueIffPresent ==
    /\ pc # "done" => output = <<>>
    /\ pc = "done" =>
          LET result == calls[1].result
              present == result.tag = "Ok" /\ "value" \in DOMAIN result.data
          IN  /\ (ValueLines # {}) <=> present
              /\ present =>
                    output = <<[stream |-> "stdout", format |-> "{:?}",
                                arg |-> result.data["value"]]>>
              /\ (result.tag = "Ok" /\ ~present) => (output = <<>> /\ ~panicked)

\* the body was {"other":"x"}: get_data returned Ok and main ended having
\* printed nothing
C6_Witness ==
    /\ pc = "done"
    /\ calls[1].response.tag = "Ok"
    /\ calls[1].response.body = Serialize(DocOther)
    /\ calls[1].result.tag = "Ok"
    /\ output = <<>>

\* C7: when get_data returned an error main prints one error message and no
\* value, and the process goes on to return from main: nothing aborts it.
C7_ErrorPrintedOnce ==
    (Len(calls) = 1 /\ calls[1].result.tag = "Err") =>
        /\ ~panicked
        /\ pc \in {"match", "done"}
        /\ pc = "match" => (output = <<>> /\ ENABLED MainMatch)
        /\ pc = "done" =>
              /\ Len(output) = 1
              /\ output[1].format = "Error: {:?}"
              /\ output[1].arg = calls[1].result
              /\ ValueLines = {}

\* send() failed, main printed the error and returned
C7_Witness ==
    /\ pc = "done"
    /\ calls[1].response.tag = "Err"
    /\ calls[1].result.tag = "Err"
    /\ Len(output) = 1
    /\ ~panicked

====
